---------------------------- MODULE Spec2Model ----------------------------
(***************************************************************************)
(* Model of the milestone scanners scan_nba_milestones_json.py and         *)
(* scan_nhl_milestones_json.py.                                            *)
(*                                                                         *)
(* Four specifications share the module:                                   *)
(*   Spec / FairSpec : one run of scan_nba() or scan_nhl(): roster load,   *)
(*                     ThreadPoolExecutor submission, the worker threads   *)
(*                     running process_player, the as_completed loop and   *)
(*                     the report write.                                   *)
(*   SpecTrace       : the same run on short rosters, with the requests,   *)
(*                     responses and sleeps of every worker recorded.      *)
(*   SpecEval        : the milestone arithmetic, the emit/suppress         *)
(*                     decision of process_player on a cumulative value    *)
(*                     and the NBA parse of a payload.                     *)
(*   SpecPair        : two runs of the as_completed loop over the same     *)
(*                     roster and the same per-entity outcomes.            *)
(***************************************************************************)
EXTENDS Integers, Sequences, FiniteSets, TLC

(***************************************************************************)
(* Bounds of the model.                                                    *)
(***************************************************************************)
\* longest list players.get_active_players() returns in the model
MaxRoster == 3
\* largest worker-pool size explored (the scripts fix 5 and 10; the pool's
\* behaviour is uniform in its size, the model explores 1..MaxPool)
MaxPool == 2
\* largest cumulative value the milestone evaluation is checked on
MaxStat == 2100
\* largest small step the milestone arithmetic is checked on
MaxStep == 12

(***************************************************************************)
(* Configuration constants of the two scripts.                             *)
(***************************************************************************)
NBA_MILESTONE_STEP == 1000
WITHIN_POINTS == 250
NHL_MILESTONE_STEP == 100
WITHIN_RANGE == 15
MIN_CAREER_STAT == 80

Leagues == {"nba", "nhl"}

\* API_KEY = os.environ.get('SCRAPERAPI_KEY', ''): empty or a credential
ApiKeys == {"", "key"}

MILESTONE_STEP(lg) == IF lg = "nba" THEN NBA_MILESTONE_STEP ELSE NHL_MILESTONE_STEP

\* the two team abbreviations kept of the 32 of TEAM_ABBREVIATIONS
TEAM_ABBREVIATIONS == <<"ANA", "BOS">>

(***************************************************************************)
(* Roster entries: a player id with the name the roster source gives.      *)
(* The third entry carries id 1 under another spelling of the name.        *)
(***************************************************************************)
Entities ==
    { [id |-> 1, full_name |-> "A"],
      [id |-> 2, full_name |-> "B"],
      [id |-> 1, full_name |-> "A."] }

None == [none |-> TRUE]

(***************************************************************************)
(* Payloads (the value of response.json()).                                *)
(***************************************************************************)
\* NBA: the rows of resultSets[0]['rowSet'], each reduced to its PTS column
NbaRowSets == { <<>>, <<0>>, <<500>>, <<400, 400>> }

NbaPayloads ==
    { [shape |-> "falsy"], [shape |-> "noResultSets"], [shape |-> "badRow"] }
    \cup { [shape |-> "rows", rows |-> r] : r \in NbaRowSets }

\* NHL: careerTotals.regularSeason.goals, or a document without that path,
\* or a value that is no number / a document that is no object
NhlPayloads ==
    { [shape |-> "noTotals"], [shape |-> "badShape"] }
    \cup { [shape |-> "stat", value |-> v] : v \in {50, 85, 90} }

Payloads(lg) == IF lg = "nba" THEN NbaPayloads ELSE NhlPayloads

\* what requests.get(...) can produce: a transport exception (connect,
\* timeout, reset), or a status with a body that response.json() parses to
\* a payload or cannot parse. The code reads the body of a 200 only, so the
\* other statuses carry one body
Statuses == {200, 403, 500}

Unparseable == [shape |-> "unparseable"]

Responses(lg) ==
    { [kind |-> "exception"] }
    \cup { [kind |-> "http", status |-> s, body |-> Unparseable] : s \in Statuses }
    \cup { [kind |-> "http", status |-> 200, body |-> b] : b \in Payloads(lg) }

(***************************************************************************)
(* Pure parts of process_player.                                           *)
(***************************************************************************)
\* variant: rounds v up to a multiple of s, so a v on a multiple targets itself
NextMilestoneCeil(v, s) == ((v + s - 1) \div s) * s

\* next_m = ((int(v) // MILESTONE_STEP) + 1) * MILESTONE_STEP
NextMilestone(v, s) == ((v \div s) + 1) * s

\* needed = next_m - v
Needed(v, s) == NextMilestone(v, s) - v

\* WITHIN_POINTS (NBA) / WITHIN_RANGE (NHL)
Threshold(lg) == IF lg = "nba" THEN WITHIN_POINTS ELSE WITHIN_RANGE

\* the early returns on the value: `if total_pts == 0` (NBA),
\* `if career_val < MIN_CAREER_STAT` (NHL)
TooLow(lg, v) == IF lg = "nba" THEN v = 0 ELSE v < MIN_CAREER_STAT

\* variant: the proximity test with a strict comparison
InRangeStrict(lg, v) == Needed(v, MILESTONE_STEP(lg)) < Threshold(lg)

\* `if needed <= WITHIN_...`
InRange(lg, v) == Needed(v, MILESTONE_STEP(lg)) <= Threshold(lg)

\* the dict process_player returns for a candidate (image_url, team and
\* stat_type are strings derived from pid and the payload, left out)
Candidate(lg, p, v) ==
    [ player_name |-> p.full_name,
      player_id |-> p.id,
      current_stat |-> v,
      target_milestone |-> NextMilestone(v, MILESTONE_STEP(lg)),
      needed |-> Needed(v, MILESTONE_STEP(lg)) ]

\* the decision on a cumulative value v
Evaluate(lg, p, v) ==
    IF TooLow(lg, v) THEN None
    ELSE IF InRange(lg, v) THEN Candidate(lg, p, v)
    ELSE None

RECURSIVE SumRows(_)
\* total_pts = sum(row[26] for row in rows)
SumRows(rows) == IF rows = <<>> THEN 0 ELSE Head(rows) + SumRows(Tail(rows))

\* `if not data`: fetch_url's None, or a JSON value that is falsy
Falsy(data) == data = None \/ data.shape = "falsy"

\* The statements of process_player inside its try block raise on this
\* payload (a row without column 26, a document that is no object, a
\* value that is no number)
ParseRaises(data) == data.shape \in {"badRow", "badShape"}

\* The cumulative value the payload yields, when it yields one
\*   NBA: sum of the PTS column over the rows of the first result set
\*   NHL: careerTotals.regularSeason[STAT_TYPE], 0 when the path is absent
HasValue(lg, data) ==
    IF lg = "nba" THEN data.shape = "rows" /\ data.rows # <<>>
    ELSE data.shape \in {"stat", "noTotals"}

\* variant: the NBA value read off the first row only
ValueOfFirstRow(lg, data) ==
    IF lg = "nba" THEN Head(data.rows)
    ELSE IF data.shape = "stat" THEN data.value ELSE 0

ValueOf(lg, data) ==
    IF lg = "nba" THEN SumRows(data.rows)
    ELSE IF data.shape = "stat" THEN data.value ELSE 0

Raised == [raised |-> TRUE]

\* variant: process_player without its except clause
OnParseExceptionRaise == Raised

\* `except Exception: return None` of process_player
OnParseException == None

\* process_player from the point where the payload is at hand
ProcessData(lg, p, data) ==
    IF lg = "nba" /\ Falsy(data) THEN None
    ELSE IF lg = "nhl" /\ data = None THEN None
    ELSE IF ParseRaises(data) THEN OnParseException
    ELSE IF ~HasValue(lg, data) THEN None
    ELSE Evaluate(lg, p, ValueOf(lg, data))

(***************************************************************************)
(* The channels of fetch_url and get_proxy_url.                            *)
(***************************************************************************)
\* `if response.status_code == 200: return response.json()` goes through
Delivers(resp) ==
    resp.kind = "http" /\ resp.status = 200 /\ resp.body.shape # "unparseable"

\* variant: the proxy attempt never returns from fetch_url
ProxyReturnsNever(resp) == FALSE

\* variant: the proxy attempt returns on any HTTP response
ProxyReturnsAnyStatus(resp) == resp.kind = "http"

\* fetch_url, proxy attempt: TRUE when the attempt returns from fetch_url
ProxyReturns(resp) == Delivers(resp)

\* fetch_url, direct attempt: the value fetch_url returns after it
DirectResult(resp) == IF Delivers(resp) THEN resp.body ELSE None

\* variant: the proxy attempt without its `if API_KEY:` guard
FirstChannelProxy(key) == "proxy"

\* fetch_url: `if API_KEY:` guards the proxy attempt
FirstChannel(key) == IF key # "" THEN "proxy" ELSE "direct"

\* get_proxy_url(url): the endpoint the returned URL points at
get_proxy_url(key) == IF key = "" THEN "origin" ELSE "proxy"

\* NHL process_player: r.json() under `if r.status_code == 200`, inside try
NhlData(resp) == IF Delivers(resp) THEN resp.body ELSE None

(***************************************************************************)
(* State.                                                                  *)
(***************************************************************************)
VARIABLES
    league,            \* which script runs: "nba" (scan_nba) or "nhl" (scan_nhl)
    API_KEY,           \* module global API_KEY
    MAX_WORKERS,       \* module global MAX_WORKERS
    pc,                \* position of the main thread in scan_nba / scan_nhl
    team_idx,          \* scan_nhl: index of the next team of the roster loop
    active_player_ids, \* scan_nhl: the set of (id, name) collected
    all_players,       \* scan_nba: all_players; scan_nhl: player_list
    futures,           \* future_to_player, in submission order
    queue,             \* the executor's work queue (indices into futures)
    num_threads,       \* worker threads the executor has started
    completed_count,   \* completed_count
    candidates,        \* candidates
    output_file,       \* OUTPUT_FILE
    proxy_hit,         \* history: a request was sent to the proxy endpoint
    failures,          \* history: invocations whose fetch or parse gave no value
    tracing,           \* history switch: record the channel events of the workers
    roster,            \* history: how the attempt to obtain the roster went
    twin,              \* SpecPair: a second run of the as_completed loop
    trace,             \* history: per future, the channel events of its fetch
    ev                 \* SpecEval: the evaluation under check

vars == << league, API_KEY, MAX_WORKERS, pc, team_idx, active_player_ids,
           all_players, futures, queue, num_threads, completed_count,
           candidates, output_file, proxy_hit, failures, tracing, roster, twin, trace, ev >>

Unwritten == [written |-> FALSE]

EvOff == [pc |-> "off"]

TwinOff == [pc |-> "off"]

\* longest list get_active_players() returns when the events are recorded
TracedRoster == 1

\* the entries of nba_api's static player list: one name per id
NbaPlayers == { e \in Entities : e.full_name \in {"A", "B"} }

\* the lists of length at most n that get_active_players() may return
Rosters(n) == UNION { [1..k -> NbaPlayers] : k \in 0..n }

\* the orders list(active_player_ids) can come out in
Orders(S) ==
    { f \in [1..Cardinality(S) -> S] : \A i, j \in 1..Cardinality(S) : i # j => f[i] # f[j] }

Tasks == 1..Len(futures)

InFlight(t) == futures[t].st \notin {"queued", "finished"}

Running == Cardinality({ t \in Tasks : InFlight(t) })

InitScan ==
    /\ league \in Leagues
    /\ API_KEY \in ApiKeys
    /\ MAX_WORKERS \in 1..MaxPool
    /\ pc = "start"
    /\ team_idx = 1
    /\ active_player_ids = {}
    /\ all_players = <<>>
    /\ futures = <<>>
    /\ queue = <<>>
    /\ num_threads = 0
    /\ completed_count = 0
    /\ candidates = <<>>
    /\ output_file = Unwritten
    /\ proxy_hit = FALSE
    /\ failures = 0
    /\ roster = "untried"
    /\ twin = TwinOff
    /\ trace = <<>>
    /\ ev = EvOff

Init == InitScan /\ tracing = FALSE

(***************************************************************************)
(* Main thread: scan_nba() / scan_nhl().                                   *)
(***************************************************************************)
\* Where the entry of the scan leads: scan_nba only prints on a missing
\* key; scan_nhl returns on `if not API_KEY`
EntryGate(lg, key) == IF lg = "nhl" /\ key = "" THEN "aborted" ELSE "roster"

Start ==
    /\ pc = "start"
    /\ pc' = EntryGate(league, API_KEY)
    /\ UNCHANGED << league, API_KEY, MAX_WORKERS, team_idx, active_player_ids,
                    all_players, futures, queue, num_threads, completed_count,
                    candidates, output_file, proxy_hit, failures, tracing, roster, twin, trace, ev >>

\* position of the main thread with `done` of `total` players submitted: in
\* the dict comprehension, or past it in the as_completed loop
Comprehension(done, total) == IF done < total THEN "submit" ELSE "collect"

\* scan_nba step 1: players.get_active_players() returns a list
LoadPlayers ==
    /\ pc = "roster" /\ league = "nba"
    /\ \E ps \in Rosters(IF tracing THEN TracedRoster ELSE MaxRoster) :
          /\ all_players' = ps
          /\ pc' = Comprehension(0, Len(ps))
    /\ roster' = "obtained"
    /\ UNCHANGED << league, API_KEY, MAX_WORKERS, team_idx, active_player_ids,
                    futures, queue, num_threads, completed_count, candidates,
                    output_file, proxy_hit, failures, tracing, twin, trace, ev >>

\* scan_nba step 1: players.get_active_players() raises; `return`
LoadPlayersFails ==
    /\ pc = "roster" /\ league = "nba"
    /\ pc' = "aborted"
    /\ roster' = "unavailable"
    /\ UNCHANGED << league, API_KEY, MAX_WORKERS, team_idx, active_player_ids,
                    all_players, futures, queue, num_threads, completed_count,
                    candidates, output_file, proxy_hit, failures, tracing, twin, trace, ev >>

\* what a roster request of scan_nhl can bring: nothing (a transport
\* exception, a status other than 200, a body that does not parse), or a
\* 200 with the roster of the team
TeamResponses == {"failed", "delivered"}

\* the players an iteration of the roster loop adds: none when the request
\* brought nothing, else the players of the document up to the first entry
\* that raises
TeamPlayers(resp) == IF resp = "delivered" THEN SUBSET Entities ELSE {{}}

\* history: the roster is obtained once a request has delivered; it is
\* unavailable as long as every request so far brought nothing
RosterAfter(r, resp) ==
    IF resp = "delivered" \/ r = "obtained" THEN "obtained" ELSE "unavailable"

\* scan_nhl: one iteration of the roster loop, whose try/except goes on to
\* the next team whatever happens
FetchTeam ==
    /\ pc = "roster" /\ league = "nhl"
    /\ team_idx <= Len(TEAM_ABBREVIATIONS)
    /\ proxy_hit' = (proxy_hit \/ get_proxy_url(API_KEY) = "proxy")
    /\ \E resp \in TeamResponses :
          /\ \E added \in TeamPlayers(resp) :
                active_player_ids' = active_player_ids \cup added
          /\ roster' = RosterAfter(roster, resp)
    /\ team_idx' = team_idx + 1
    /\ UNCHANGED << league, API_KEY, MAX_WORKERS, pc, all_players, futures,
                    queue, num_threads, completed_count, candidates,
                    output_file, failures, tracing, twin, trace, ev >>

\* scan_nhl: player_list = list(active_player_ids)
ListPlayers ==
    /\ pc = "roster" /\ league = "nhl"
    /\ team_idx > Len(TEAM_ABBREVIATIONS)
    /\ all_players' \in Orders(active_player_ids)
    /\ pc' = Comprehension(0, Cardinality(active_player_ids))
    /\ UNCHANGED << league, API_KEY, MAX_WORKERS, team_idx, active_player_ids,
                    futures, queue, num_threads, completed_count, candidates,
                    output_file, proxy_hit, failures, tracing, roster, twin, trace, ev >>

\* variant: a thread per submitted work item
SpawnAlways(n) == n + 1

\* ThreadPoolExecutor._adjust_thread_count: a thread is started while fewer
\* than max_workers exist
SpawnThread(n) == IF n < MAX_WORKERS THEN n + 1 ELSE n

NewFuture(p) ==
    [p |-> p, st |-> "queued", result |-> None, collected |-> FALSE]

\* executor.submit(process_player, p) for the next p of the comprehension
Submit ==
    /\ pc = "submit"
    /\ Len(futures) < Len(all_players)
    /\ futures' = Append(futures, NewFuture(all_players[Len(futures) + 1]))
    /\ queue' = Append(queue, Len(futures) + 1)
    /\ trace' = Append(trace, <<>>)
    /\ num_threads' = SpawnThread(num_threads)
    /\ pc' = Comprehension(Len(futures) + 1, Len(all_players))
    /\ UNCHANGED << league, API_KEY, MAX_WORKERS, team_idx, active_player_ids,
                    all_players, completed_count, candidates, output_file,
                    proxy_hit, failures, tracing, roster, twin, ev >>

\* variant: the append lost, the list holding the last candidate only
AggregateLast(cands, result) ==
    IF result = Raised THEN cands
    ELSE IF result # None THEN << result >>
    ELSE cands

\* body of the as_completed loop after the counter: future.result() in try,
\* `if result: candidates.append(result)`, `except Exception: pass`
Aggregate(cands, result) ==
    IF result = Raised THEN cands
    ELSE IF result # None THEN Append(cands, result)
    ELSE cands

\* completed_count += 1
Count(n) == n + 1

\* one iteration of `for future in as_completed(future_to_player)`
Collect(t) ==
    /\ pc = "collect"
    /\ futures[t].st = "finished" /\ ~futures[t].collected
    /\ completed_count' = Count(completed_count)
    /\ candidates' = Aggregate(candidates, futures[t].result)
    /\ futures' = [futures EXCEPT ![t].collected = TRUE]
    /\ UNCHANGED << league, API_KEY, MAX_WORKERS, pc, team_idx, active_player_ids,
                    all_players, queue, num_threads, proxy_hit, output_file,
                    failures, tracing, roster, twin, trace, ev >>

\* variant: the loop is left once every future is done, collected or not
LoopAllReturned == \A t \in Tasks : futures[t].st = "finished"

\* variant: the loop is left as soon as the work queue is empty
LoopDrained == queue = <<>>

\* as_completed has yielded every future; the with block is left
LoopExhausted == \A t \in Tasks : futures[t].collected

\* json.dump(candidates, f)
WriteReport ==
    /\ pc = "collect"
    /\ LoopExhausted
    /\ output_file' = [written |-> TRUE, content |-> candidates]
    /\ pc' = "done"
    /\ UNCHANGED << league, API_KEY, MAX_WORKERS, team_idx, active_player_ids,
                    all_players, futures, queue, num_threads, completed_count,
                    candidates, proxy_hit, failures, tracing, roster, twin, trace, ev >>

(***************************************************************************)
(* Worker threads: process_player (and fetch_url for the NBA). A worker    *)
(* takes one step per HTTP request; the pacing sleep in front of a request *)
(* touches nothing but the thread itself and belongs to the request's step.*)
(***************************************************************************)
\* a worker thread is free to take the next work item
CanStart == Running < num_threads

\* first blocking point of process_player
FirstStep(lg, key) == IF lg = "nba" THEN FirstChannel(key) ELSE "request"

\* history: whether the fetch and the parse gave a cumulative value ("valued") or
\* not ("failed": no payload from any channel, a payload the parse raises
\* on, or a payload without the result sets / the rows)
Classify(lg, data) ==
    IF data = None \/ Falsy(data) \/ ParseRaises(data) \/ ~HasValue(lg, data)
    THEN "failed"
    ELSE "valued"

Record(t, es) == IF tracing THEN [trace EXCEPT ![t] = @ \o es] ELSE trace

\* process_player returns: the future is set
Finish(t, data) ==
    /\ failures' = failures + (IF Classify(league, data) = "failed" THEN 1 ELSE 0)
    /\ futures' = [futures EXCEPT ![t].st = "finished",
                               ![t].result = ProcessData(league, futures[t].p, data)]

\* a worker thread takes the head of the work queue and enters process_player
StartTask(t) ==
    /\ queue # <<>> /\ t = Head(queue)
    /\ CanStart
    /\ queue' = Tail(queue)
    /\ futures' = [futures EXCEPT ![t].st = FirstStep(league, API_KEY)]
    /\ UNCHANGED << league, API_KEY, MAX_WORKERS, pc, team_idx, active_player_ids,
                    all_players, num_threads, completed_count, candidates,
                    output_file, proxy_hit, failures, tracing, roster, twin, trace, ev >>

\* fetch_url: requests.get(proxy_url, ...) and what follows it: a 200 that
\* parses returns from fetch_url, anything else falls to the direct attempt
ProxyRequest(t) ==
    /\ futures[t].st = "proxy"
    /\ proxy_hit' = TRUE
    /\ \E resp \in Responses(league) :
          IF ProxyReturns(resp)
          THEN /\ Finish(t, resp.body)
               /\ trace' = Record(t, << [ch |-> "proxy", resp |-> resp],
                                        [ch |-> "return", data |-> resp.body] >>)
          ELSE /\ futures' = [futures EXCEPT ![t].st = "direct"]
               /\ failures' = failures
               /\ trace' = Record(t, << [ch |-> "proxy", resp |-> resp] >>)
    /\ UNCHANGED << league, API_KEY, MAX_WORKERS, pc, team_idx, active_player_ids,
                    all_players, queue, num_threads, completed_count, candidates,
                    output_file, tracing, roster, twin, ev >>

\* variant: the direct request without the sleep in front of it
UnpacedDirect(resp) == << [ch |-> "direct", resp |-> resp] >>

\* fetch_url, direct attempt: time.sleep(random.uniform(1.0, 2.0)) and then
\* requests.get(url, ...), as channel events
PacedDirect(resp) == << [ch |-> "sleep"], [ch |-> "direct", resp |-> resp] >>

\* fetch_url, direct attempt: time.sleep(random.uniform(1.0, 2.0)), then
\* requests.get(url, ...) and the return of fetch_url
DirectRequest(t) ==
    /\ futures[t].st = "direct"
    /\ \E resp \in Responses(league) :
          /\ Finish(t, DirectResult(resp))
          /\ trace' = Record(t, PacedDirect(resp)
                                \o << [ch |-> "return", data |-> DirectResult(resp)] >>)
    /\ UNCHANGED << league, API_KEY, MAX_WORKERS, pc, team_idx, active_player_ids,
                    all_players, queue, num_threads, completed_count, candidates,
                    output_file, proxy_hit, tracing, roster, twin, ev >>

\* NHL process_player: time.sleep(random.uniform(0.1, 0.3)), then
\* requests.get(get_proxy_url(url), ...) to the return
NhlRequest(t) ==
    /\ futures[t].st = "request"
    /\ proxy_hit' = (proxy_hit \/ get_proxy_url(API_KEY) = "proxy")
    /\ \E resp \in Responses(league) :
          /\ Finish(t, NhlData(resp))
          /\ trace' = Record(t, << [ch |-> "sleep"],
                                   [ch |-> get_proxy_url(API_KEY), resp |-> resp],
                                   [ch |-> "return", data |-> NhlData(resp)] >>)
    /\ UNCHANGED << league, API_KEY, MAX_WORKERS, pc, team_idx, active_player_ids,
                    all_players, queue, num_threads, completed_count, candidates,
                    output_file, tracing, roster, twin, ev >>

\* the steps of the worker threads, over the futures
Workers ==
    \/ \E t \in Tasks : StartTask(t)
    \/ \E t \in Tasks : ProxyRequest(t)
    \/ \E t \in Tasks : DirectRequest(t)
    \/ \E t \in Tasks : NhlRequest(t)

\* the as_completed loop, over the futures
Collecting == \E t \in Tasks : Collect(t)

Main ==
    \/ Start
    \/ LoadPlayers
    \/ LoadPlayersFails
    \/ FetchTeam
    \/ ListPlayers
    \/ Submit
    \/ Collecting
    \/ WriteReport

Next == Main \/ Workers

Spec == Init /\ [][Next]_vars

\* every request and sleep ends (timeouts of 10 s and 30 s, sleeps of at
\* most 2 s) and the threads are scheduled: a run does not stop while a
\* step of the main thread or of a worker is possible
Fairness == WF_vars(Next)

FairSpec == Spec /\ Fairness

(***************************************************************************)
(* SpecTrace: the scan on short rosters, with the channel events of every  *)
(* process_player invocation (requests with their responses, sleeps, the   *)
(* payload handed to the parse) recorded in trace.                         *)
(***************************************************************************)
InitTrace == InitScan /\ tracing = TRUE

SpecTrace == InitTrace /\ [][Next]_vars

(***************************************************************************)
(* SpecEval: the milestone arithmetic on (v, s) and the decision of        *)
(* process_player on a cumulative value v, for each league.                *)
(***************************************************************************)
Steps == 1..MaxStep \cup {NHL_MILESTONE_STEP, NBA_MILESTONE_STEP}

\* most rows in a row set handed to the NBA parse
MaxRows == 3

\* the PTS values of the rows handed to the NBA parse
PtsValues == {0, 400, 500}

\* the row sets of resultSets[0], each row reduced to its PTS column
EvalRowSets == UNION { [1..k -> PtsValues] : k \in 0..MaxRows }

\* the payloads handed to the NBA parse
EvalPayloads ==
    { [shape |-> "falsy"], [shape |-> "noResultSets"], [shape |-> "badRow"] }
    \cup { [shape |-> "rows", rows |-> r] : r \in EvalRowSets }

EvalInputs ==
    { [pc |-> "in", op |-> "target", v |-> v, s |-> s] : v \in 0..MaxStat, s \in Steps }
    \cup { [pc |-> "in", op |-> "decide", v |-> v, p |-> p] : v \in 0..MaxStat, p \in NbaPlayers }
    \cup { [pc |-> "in", op |-> "parse", data |-> d, p |-> p] : d \in EvalPayloads, p \in NbaPlayers }

InitEval ==
    /\ league \in Leagues
    /\ API_KEY = ""
    /\ MAX_WORKERS = 1
    /\ pc = "eval"
    /\ team_idx = 1
    /\ active_player_ids = {}
    /\ all_players = <<>>
    /\ futures = <<>>
    /\ queue = <<>>
    /\ num_threads = 0
    /\ completed_count = 0
    /\ candidates = <<>>
    /\ output_file = Unwritten
    /\ proxy_hit = FALSE
    /\ failures = 0
    /\ tracing = FALSE
    /\ roster = "untried"
    /\ twin = TwinOff
    /\ trace = <<>>
    /\ ev \in EvalInputs
    /\ ev.op = "parse" => league = "nba"

\* next_m and needed as process_player computes them
EvalTarget ==
    /\ ev.pc = "in" /\ ev.op = "target"
    /\ ev' = [pc |-> "out", op |-> "target", v |-> ev.v, s |-> ev.s,
              next_m |-> NextMilestone(ev.v, ev.s),
              needed |-> Needed(ev.v, ev.s)]
    /\ UNCHANGED << league, API_KEY, MAX_WORKERS, pc, team_idx, active_player_ids,
                    all_players, futures, queue, num_threads, completed_count,
                    candidates, output_file, proxy_hit, failures, tracing, roster, twin, trace >>

\* the return value of process_player on the value v
EvalPlayer ==
    /\ ev.pc = "in" /\ ev.op = "decide"
    /\ ev' = [pc |-> "out", op |-> "decide", v |-> ev.v, p |-> ev.p,
              result |-> Evaluate(league, ev.p, ev.v)]
    /\ UNCHANGED << league, API_KEY, MAX_WORKERS, pc, team_idx, active_player_ids,
                    all_players, futures, queue, num_threads, completed_count,
                    candidates, output_file, proxy_hit, failures, tracing, roster, twin, trace >>

\* the return value of the NBA process_player on the payload fetch_url gave
EvalPayload ==
    /\ ev.pc = "in" /\ ev.op = "parse"
    /\ ev' = [pc |-> "out", op |-> "parse", data |-> ev.data, p |-> ev.p,
              result |-> ProcessData("nba", ev.p, ev.data)]
    /\ UNCHANGED << league, API_KEY, MAX_WORKERS, pc, team_idx, active_player_ids,
                    all_players, futures, queue, num_threads, completed_count,
                    candidates, output_file, proxy_hit, failures, tracing,
                    roster, twin, trace >>

NextEval == EvalTarget \/ EvalPlayer \/ EvalPayload

SpecEval == InitEval /\ [][NextEval]_vars

(***************************************************************************)
(* SpecPair: two runs of the as_completed loop over the same roster and    *)
(* the same per-entity outcomes. The first run uses the variables of the   *)
(* scan, the second the record twin; each takes the finished futures in an *)
(* order of its own, as the completion order of the threads gives them.    *)
(***************************************************************************)
\* longest roster of the paired runs
MaxPair == 2

\* what process_player can return for the player p
Outcomes(lg, p) == { ProcessData(lg, p, d) : d \in Payloads(lg) \cup {None} }

\* the rosters of the paired runs: a list of nba_api for scan_nba, a listing
\* of a set of (id, name) for scan_nhl
PairRosters(lg) ==
    IF lg = "nba" THEN Rosters(MaxPair)
    ELSE UNION { Orders(S) : S \in { T \in SUBSET Entities : Cardinality(T) <= MaxPair } }

\* every future of the roster ps is set, to the outcomes rs, and none is collected
FinishedFutures(ps, rs) ==
    [ t \in 1..Len(ps) |->
        [p |-> ps[t], st |-> "finished", result |-> rs[t], collected |-> FALSE] ]

\* candidates = [] and completed_count = 0 in front of the loop
TwinStart ==
    [pc |-> "collect", collected |-> {}, completed_count |-> 0,
     candidates |-> <<>>, output_file |-> Unwritten]

InitPair ==
    /\ league \in Leagues
    /\ API_KEY = "key"
    /\ MAX_WORKERS = 1
    /\ pc = "collect"
    /\ team_idx = Len(TEAM_ABBREVIATIONS) + 1
    /\ all_players \in PairRosters(league)
    /\ active_player_ids = { all_players[i] : i \in 1..Len(all_players) }
    /\ \E rs \in [1..Len(all_players) -> UNION { Outcomes(league, e) : e \in Entities }] :
          /\ \A t \in 1..Len(all_players) : rs[t] \in Outcomes(league, all_players[t])
          /\ futures = FinishedFutures(all_players, rs)
    /\ queue = <<>>
    /\ num_threads = IF all_players = <<>> THEN 0 ELSE 1
    /\ completed_count = 0
    /\ candidates = <<>>
    /\ output_file = Unwritten
    /\ proxy_hit = TRUE
    /\ failures = Cardinality({ t \in 1..Len(futures) : futures[t].result = None })
    /\ tracing = FALSE
    /\ roster = "obtained"
    /\ twin = TwinStart
    /\ trace = [t \in 1..Len(all_players) |-> <<>>]
    /\ ev = EvOff

\* second run: one iteration of the as_completed loop
TwinCollect(t) ==
    /\ twin.pc = "collect"
    /\ t \notin twin.collected
    /\ twin' = [twin EXCEPT !.collected = @ \cup {t},
                            !.completed_count = Count(@),
                            !.candidates = Aggregate(@, futures[t].result)]
    /\ UNCHANGED << league, API_KEY, MAX_WORKERS, pc, team_idx, active_player_ids,
                    all_players, futures, queue, num_threads, completed_count,
                    candidates, output_file, proxy_hit, failures, tracing,
                    roster, trace, ev >>

TwinCollecting == \E t \in Tasks : TwinCollect(t)

\* second run: json.dump(candidates, f) once the loop is exhausted
TwinWriteReport ==
    /\ twin.pc = "collect"
    /\ twin.collected = Tasks
    /\ twin' = [twin EXCEPT !.pc = "done",
                            !.output_file = [written |-> TRUE, content |-> twin.candidates]]
    /\ UNCHANGED << league, API_KEY, MAX_WORKERS, pc, team_idx, active_player_ids,
                    all_players, futures, queue, num_threads, completed_count,
                    candidates, output_file, proxy_hit, failures, tracing,
                    roster, trace, ev >>

NextPair ==
    \/ Collecting
    \/ WriteReport
    \/ TwinCollecting
    \/ TwinWriteReport

SpecPair == InitPair /\ [][NextPair]_vars

(***************************************************************************)
(* Properties.                                                             *)
(***************************************************************************)
Collected == { t \in Tasks : futures[t].collected }

Absent(t) == futures[t].result \in {None, Raised}

\* every submitted entity is accounted for, once
Accounted ==
    /\ Len(futures) = Len(all_players)
    /\ Collected = Tasks
    /\ completed_count = Len(all_players)
    /\ Len(candidates) + Cardinality({ t \in Tasks : Absent(t) }) = Len(all_players)

\* C1: whatever the pool size and the interleaving of the workers, a scan
\* eventually ends, and unless it ended for want of a roster it ends with
\* completed_count = N and candidates + absent outcomes = N for the N
\* entities of the roster; at every moment the counter equals the number of
\* futures collected (none twice, none lost)
C1_AllAccountedOnce ==
    /\ [](completed_count = Cardinality(Collected))
    /\ <>(pc = "aborted" \/ (pc = "done" /\ Accounted))

\* C1 witness: a finished scan of more entities than workers, with a
\* candidate and an absent outcome
C1_Witness ==
    /\ pc = "done"
    /\ Len(all_players) > MAX_WORKERS
    /\ Accounted
    /\ candidates # <<>>
    /\ \E t \in Tasks : Absent(t)

\* C2: at most MAX_WORKERS invocations of process_player are in flight
C2_BoundedInFlight == Running <= MAX_WORKERS

\* C2 witness: the pool is full while work is still queued
C2_Witness ==
    /\ Running = MAX_WORKERS
    /\ queue # <<>>
    /\ Len(all_players) > MAX_WORKERS

\* a channel attempt that gives no payload: a transport exception, a status
\* other than 200 (403 among them), or a 200 whose body does not parse
FailedAttempt(resp) ==
    ~(resp.kind = "http" /\ resp.status = 200 /\ resp.body # Unparseable)

\* the outcome of a channel attempt: its payload or nothing
OutcomeOf(resp) == IF FailedAttempt(resp) THEN None ELSE resp.body

\* C3: with a credential, after a proxy attempt that failed in any way the
\* invocation goes on to the direct channel, and what fetch_url returns is
\* the outcome of the direct attempt
C3_FallbackToDirect ==
    \A t \in Tasks :
        LET tr == trace[t] IN
        (API_KEY # "" /\ tr # <<>> /\ tr[1].ch = "proxy" /\ FailedAttempt(tr[1].resp))
        => /\ futures[t].st \in {"direct", "finished"}
           /\ futures[t].st = "finished"
                 => /\ Len(tr) = 4
                    /\ tr[3].ch = "direct"
                    /\ tr[4].ch = "return"
                    /\ tr[4].data = OutcomeOf(tr[3].resp)

\* C3 witness: the proxy answered 403, the direct channel 200 with a payload,
\* and fetch_url returned that payload
C3_Witness ==
    \E t \in Tasks :
        /\ futures[t].st = "finished"
        /\ Len(trace[t]) = 4
        /\ trace[t][1].ch = "proxy"
        /\ trace[t][1].resp.kind = "http"
        /\ trace[t][1].resp.status = 403
        /\ trace[t][3].resp.kind = "http"
        /\ trace[t][3].resp.status = 200
        /\ trace[t][3].resp.body = [shape |-> "rows", rows |-> <<400, 400>>]
        /\ trace[t][4].data = trace[t][3].resp.body

\* C4: with API_KEY empty no request goes to the proxy endpoint, and
\* get_proxy_url hands back the original URL
C4_NoProxyWithoutKey ==
    /\ API_KEY = "" => ~proxy_hit
    /\ get_proxy_url("") = "origin"

\* C4 witness: a finished scan without a credential in which two entities
\* were fetched and one of the fetches brought a payload that made a candidate
C4_Witness ==
    /\ API_KEY = ""
    /\ pc = "done"
    /\ Len(futures) >= 2
    /\ candidates # <<>>
    /\ ~proxy_hit

\* C5 (as claimed): with no credential configured the scan goes on from its
\* entry to the roster, for scan_nba and for scan_nhl
C5_KeyNotRequired ==
    [][(API_KEY = "" /\ pc = "start") => pc' = "roster"]_vars

\* the invocations that are through and gave no candidate
ReturnedNone == { t \in Tasks : futures[t].st = "finished" /\ futures[t].result = None }

\* the report holds the candidate of future t
Reported(t) ==
    \E i \in 1..Len(output_file.content) : output_file.content[i] = futures[t].result

\* C6: no exception leaves process_player; every invocation whose fetch
\* failed on all channels or whose payload could not be parsed returned None
\* (the failed invocations are among those that returned None); once work is
\* submitted the run is not aborted; and a finished run has collected every
\* entity and written the candidates of the others
C6_FailureIsAbsorbed ==
    /\ \A t \in Tasks : futures[t].result # Raised
    /\ failures <= Cardinality(ReturnedNone)
    /\ futures # <<>> => pc # "aborted"
    /\ pc = "done"
          => /\ output_file.written
             /\ Collected = Tasks
             /\ \A t \in Tasks : ~Absent(t) => Reported(t)

\* C6 witness: a finished run in which the first entity failed and an entity
\* submitted after it is in the report
C6_Witness ==
    /\ pc = "done"
    /\ failures >= 1
    /\ failures = Cardinality(ReturnedNone)
    /\ futures[1].result = None
    /\ \E t \in Tasks : t > 1 /\ ~Absent(t) /\ Reported(t)

\* C7 (as claimed): at the end of a scan the failure count the caller gets
\* (the entities counted less the candidates, the only counts the scan keeps)
\* is the number of entities whose fetch or parse failed
C7_FailureCountSurfaced ==
    pc = "done" => completed_count - Len(candidates) = failures

\* C8: for v >= 0 and s > 0 the target ((v // s) + 1) * s is the smallest
\* multiple of s strictly greater than v, and needed = target - v is in 1..s
C8_SmallestMultipleAbove ==
    (ev.pc = "out" /\ ev.op = "target")
    => /\ ev.next_m % ev.s = 0
       /\ ev.next_m > ev.v
       /\ \A m \in (ev.v + 1)..(ev.next_m - 1) : m % ev.s # 0
       /\ ev.needed = ev.next_m - ev.v
       /\ 0 < ev.needed /\ ev.needed <= ev.s

\* C8 witness: a value sitting on a multiple of the step targets the next one
C8_Witness ==
    /\ ev.pc = "out" /\ ev.op = "target"
    /\ ev.v = 1000 /\ ev.s = 1000
    /\ ev.next_m = 2000 /\ ev.needed = 1000

\* the minimum qualifying value: non-zero for the NBA, MIN_CAREER_STAT for the NHL
MinQualifying(lg) == IF lg = "nba" THEN 1 ELSE MIN_CAREER_STAT

\* distance from v to the smallest multiple of s above it
DistanceToNext(v, s) == s - (v % s)

\* C9: on a cumulative value v process_player gives a candidate iff
\* v >= the minimum qualifying value and needed <= the threshold (both
\* comparisons inclusive), and None otherwise
C9_EmitIff ==
    (ev.pc = "out" /\ ev.op = "decide")
    => LET d == DistanceToNext(ev.v, MILESTONE_STEP(league)) IN
       IF ev.v >= MinQualifying(league) /\ d <= Threshold(league)
       THEN /\ ev.result # None
            /\ ev.result.player_id = ev.p.id
            /\ ev.result.current_stat = ev.v
            /\ ev.result.needed = d
            /\ ev.result.target_milestone = ev.v + d
       ELSE ev.result = None

\* C9 witness: needed equal to the threshold emits (NHL, 85 goals, 15 needed)
C9_Witness ==
    /\ ev.pc = "out" /\ ev.op = "decide"
    /\ league = "nhl"
    /\ ev.v = 85
    /\ ev.result # None
    /\ ev.result.needed = WITHIN_RANGE

\* C10 (as claimed): no player id is submitted to the pool twice in a run
C10_SubmittedOnce ==
    \A t1, t2 \in Tasks : t1 # t2 => futures[t1].p.id # futures[t2].p.id

\* C11 (as claimed): a scan that is past its roster step has aborted exactly
\* when the roster could not be obtained, and an aborted scan has scheduled
\* no worker and written no report
C11_AbortIffNoRoster ==
    /\ pc \notin {"start", "roster"}
          => (pc = "aborted" <=> roster = "unavailable")
    /\ pc = "aborted" => (futures = <<>> /\ ~output_file.written)

\* C12 (as claimed): two runs over the same roster and the same per-entity
\* outcomes write the same candidate sequence, whatever the order in which
\* the futures completed in each
C12_SameReport ==
    (pc = "done" /\ twin.pc = "done")
    => output_file.content = twin.output_file.content

\* C13: in fetch_url (the NBA scan) every request on the direct channel
\* comes right after a completed sleep of the same invocation, whether the
\* proxy was tried before or not, and no sleep comes before a proxy request
C13_DirectIsPaced ==
    league = "nba"
    => \A t \in Tasks :
          LET tr == trace[t] IN
          \A i \in 1..Len(tr) :
              /\ tr[i].ch = "direct" => (i > 1 /\ tr[i - 1].ch = "sleep")
              /\ tr[i].ch = "proxy" => \A j \in 1..(i - 1) : tr[j].ch # "sleep"

\* C13 witness: without a credential the invocation slept, asked the origin
\* and got a payload; no proxy request was made
C13_Witness ==
    /\ league = "nba" /\ API_KEY = ""
    /\ \E t \in Tasks :
          /\ futures[t].st = "finished"
          /\ Len(trace[t]) = 3
          /\ trace[t][1].ch = "sleep"
          /\ trace[t][2].ch = "direct"
          /\ Delivers(trace[t][2].resp)
          /\ trace[t][3].data = trace[t][2].resp.body

\* the positions of the requests on channel ch among the events tr
RequestsOn(tr, ch) == { i \in 1..Len(tr) : tr[i].ch = ch }

\* C14: an invocation of fetch_url (the NBA scan) asks each channel at most
\* once, hence sends at most two requests, the proxy before the origin; it
\* asks the origin only without a credential or after a failed proxy
\* attempt; and a proxy attempt that succeeded is followed by the return of
\* its payload and nothing else, no sleep and no direct request
C14_OncePerChannel ==
    league = "nba"
    => \A t \in Tasks :
          LET tr == trace[t]
              P == RequestsOn(tr, "proxy")
              D == RequestsOn(tr, "direct")
          IN  /\ Cardinality(P) <= 1
              /\ Cardinality(D) <= 1
              /\ \A i \in P, j \in D : i < j
              /\ D # {} => (API_KEY = "" \/ \E i \in P : FailedAttempt(tr[i].resp))
              /\ \A i \in P :
                    ~FailedAttempt(tr[i].resp)
                    => /\ futures[t].st = "finished"
                       /\ tr = << tr[i], [ch |-> "return", data |-> tr[i].resp.body] >>

\* C14 witness: with a credential the proxy delivered a payload, fetch_url
\* returned it after that one request and the player became a candidate
C14_Witness ==
    /\ league = "nba" /\ API_KEY # ""
    /\ \E t \in Tasks :
          /\ futures[t].st = "finished"
          /\ Len(trace[t]) = 2
          /\ trace[t][1].ch = "proxy"
          /\ trace[t][1].resp.status = 200
          /\ trace[t][2].data = [shape |-> "rows", rows |-> <<400, 400>>]
          /\ futures[t].result # None

\* every entity of the roster was submitted, its invocation has returned and
\* its future has been taken by the loop; no worker holds a work item
AllReturnedAndCollected ==
    /\ Len(futures) = Len(all_players)
    /\ queue = <<>>
    /\ Running = 0
    /\ \A t \in Tasks : futures[t].st = "finished" /\ futures[t].collected
    /\ completed_count = Len(all_players)

\* C15: a scan that does not abort writes its report; when the report is
\* written every submitted invocation has returned and been collected and no
\* worker is running; and the report, once written, is not written again
C15_WrittenOnceAfterAll ==
    /\ [](output_file.written
             => (AllReturnedAndCollected /\ output_file.content = candidates))
    /\ [][output_file.written => output_file' = output_file]_vars
    /\ <>(pc = "aborted" \/ output_file.written)

\* C15 witness: the report of a scan of more entities than workers is
\* written, with two candidates in it
C15_Witness ==
    /\ output_file.written
    /\ Len(futures) > MAX_WORKERS
    /\ AllReturnedAndCollected
    /\ Len(output_file.content) = 2

\* a step of a worker thread: an invocation of process_player starts, moves
\* on to its next request or returns
WorkerStep == \E t \in Tasks : futures'[t].st # futures[t].st

\* C16: candidates and completed_count change only in a step of the
\* as_completed loop of the main thread, never in a step of a worker; and
\* whatever the workers do meanwhile no increment and no append is lost: the
\* counter is the number of futures collected and the list holds one entry
\* for each collected future that gave a candidate
C16_OnlyAggregatorWrites ==
    /\ [][WorkerStep => UNCHANGED << candidates, completed_count >>]_vars
    /\ [][(candidates' # candidates \/ completed_count' # completed_count)
             => (pc = "collect" /\ Collecting)]_vars
    /\ [](/\ completed_count = Cardinality(Collected)
          /\ Len(candidates) = Cardinality({ t \in Collected : ~Absent(t) })
          /\ \A t \in Collected : ~Absent(t) => \E i \in 1..Len(candidates) :
                                                    candidates[i] = futures[t].result)

\* C16 witness: two candidates have been appended and counted while a
\* worker is still inside process_player
C16_Witness ==
    /\ pc = "collect"
    /\ completed_count = 2
    /\ Len(candidates) = 2
    /\ Running >= 1

RECURSIVE TotalOver(_, _)
\* the statistic added up over the first n rows
TotalOver(rows, n) == IF n = 0 THEN 0 ELSE TotalOver(rows, n - 1) + rows[n]

\* C17: on a payload with rows the NBA process_player decides on the sum of
\* the statistic over all the rows of the first result set; on a payload
\* without result sets or with an empty row set it returns None
C17_SumOverAllRows ==
    (ev.pc = "out" /\ ev.op = "parse")
    => LET d == ev.data IN
       /\ (d.shape = "rows" /\ d.rows # <<>>)
             => ev.result = Evaluate("nba", ev.p, TotalOver(d.rows, Len(d.rows)))
       /\ (d.shape = "noResultSets" \/ (d.shape = "rows" /\ d.rows = <<>>))
             => ev.result = None

\* C17 witness: two rows of 400 points make a candidate at 800, 200 short of
\* 1000, which neither row makes alone
C17_Witness ==
    /\ ev.pc = "out" /\ ev.op = "parse"
    /\ ev.data = [shape |-> "rows", rows |-> <<400, 400>>]
    /\ ev.result # None
    /\ ev.result.current_stat = 800
    /\ ev.result.needed = 200
    /\ Evaluate("nba", ev.p, 400) = None

=============================================================================
